---- MODULE Spec2Model ----
(***************************************************************************)
(* Model of lib/gemini.js: the Gemini orchestrator (one-time init gate,    *)
(* the _exec wrapper with its critical-error check, halt, the run          *)
(* pipeline of _run, test discovery in _readTests) and the grep filter     *)
(* applyGrep_ over the suite tree.                                         *)
(***************************************************************************)
EXTENDS Naturals, Sequences, FiniteSets

\* ------------------------------------------------------------------ bounds
\* number of public operations (test / update / readTests) called on the instance
MaxOps == 2
\* number of halt calls
MaxHalts == 2
\* number of nodes of a suite tree handed to the grep filter (root included)
MaxNodes == 5
\* interrupt signals delivered to the process
MaxSignals == 1
\* characters in the text of an environment variable
MaxEnvLen == 3

\* ---------------------------------------------------------------- constants
\* halt(err, timeout = 60000)
DefaultTimeout == 60000

Ops == 1..MaxOps
Errs == {"e1", "e2"}
None == "none"
NoRunner == 0
NoParent == 0
Root == 1
\* the timeout argument of halt: left out, 0, or another number
TimeoutArgs ==
    {[given |-> FALSE, ms |-> 0], [given |-> TRUE, ms |-> 0],
     [given |-> TRUE, ms |-> 5000]}
\* halt(err, 0)
NoForcedShutdown == [given |-> TRUE, ms |-> 0]
\* options.reporters: callables whose attachment is synchronous or asynchronous
ReporterLists == {<<>>, <<"sync">>, <<"async", "sync">>}
Callables == {"sync", "async"}
\* options.reporters: names of reporters
ReporterNames == {"flat", "nosuch", "broken", "faulty"}
\* options.reporters with a reporter by name or a number in them
NamedReporterLists ==
    {<<"flat">>, <<"nosuch">>, <<"sync", "broken">>, <<"async", "faulty">>,
     <<"flat", "number", "sync">>}

VARIABLES
    initFn,         \* this._init: "emit" (the method) or "noop" (its replacement)
    initCount,      \* how many times INIT was broadcast
    initState,      \* the emitAndWait(INIT) promise: "none", "pending", "done"
    ops,            \* per public call: its position in _exec / _run and what it did
    runnerRef,      \* this._runner: NoRunner (undefined) or the op whose _run created it
    runners,        \* per runner (named by the op that created it): its state, cancelled flag
    criticalError,  \* this._criticalError
    timers,         \* forced-shutdown timers scheduled by halt
    halts,          \* number of halt calls so far
    lastHalt,       \* what the most recent halt call did
    listeners,      \* the INTERRUPT handlers on the signal handler: the runner of each
    signals,        \* number of interrupt signals delivered so far
    lastSignal,     \* what the most recent interrupt signal did
    env,            \* process.env: GEMINI_BROWSERS and GEMINI_SKIP_BROWSERS
    suiteTree,      \* grep filter: the root suite as the test reader returned it
    grepPattern,    \* grep filter: the full names the pattern matches
    grepPass,       \* grep filter: how many times the filter was applied
    filtered,       \* grep filter: every node's children now, and whether the filter threw
    firstPass       \* grep filter: the same, as the first application left it

orchVars == <<initFn, initCount, initState, ops, runnerRef, runners,
              criticalError, timers, halts, lastHalt,
              listeners, signals, lastSignal, env>>
sigVars == <<listeners, signals, lastSignal>>
grepVars == <<suiteTree, grepPattern, grepPass, filtered, firstPass>>
vars == <<initFn, initCount, initState, ops, runnerRef, runners,
          criticalError, timers, halts, lastHalt,
          listeners, signals, lastSignal, env,
          suiteTree, grepPattern, grepPass, filtered, firstPass>>

\* ---------------------------------------------------------------- suite tree
\* A tree is [parent, hasStates, children]: node i's parent (NoParent for the
\* root), whether it has states, and its ordered children.
Nodes(t) == DOMAIN t.parent

RECURSIVE fullName(_, _)
\* suite.fullName: the names on the path from the root; a node's own name is its id
fullName(t, n) ==
    IF t.parent[n] = NoParent THEN <<>>
    ELSE Append(fullName(t, t.parent[n]), n)

\* grep.test(suite.fullName)
grepTest(grep, name) == name \in grep

RECURSIVE without(_, _)
without(s, x) ==
    IF s = <<>> THEN <<>>
    ELSE IF Head(s) = x THEN Tail(s)
    ELSE <<Head(s)>> \o without(Tail(s), x)

\* parent.removeChild(suite): the children of every node afterwards
removeChild(ch, p, n) == [ch EXCEPT ![p] = without(ch[p], n)]

\* the array forEach walks: a snapshot of suite.children taken before the walk
cloneChildren_live(snapshot, live) == live
cloneChildren(snapshot, live) == snapshot

\* a suite with states is removed when its full name does not match
leafRemoved_inverted(grep, name) == grepTest(grep, name)
leafRemoved(grep, name) == ~grepTest(grep, name)

\* a suite without states, without children and with a parent is removed
pruneEmpty(hasStates, nChildren, parent) ==
    ~hasStates /\ nChildren = 0 /\ parent # NoParent

RECURSIVE applyGrep_(_, _, _, _), forEachChild(_, _, _, _, _, _)
\* _.clone(suite.children).forEach((child) => applyGrep_(grep, child, suite))
forEachChild(t, grep, suite, snapshot, i, st) ==
    LET arr == cloneChildren(snapshot, st.children[suite])
    IN  IF st.threw \/ i > Len(arr) THEN st
        ELSE forEachChild(t, grep, suite, snapshot, i + 1,
                          applyGrep_(t, grep, arr[i], st))

\* st is [children, threw]: the children of every node, and whether a
\* TypeError was thrown (suite.parent.removeChild on a suite without parent)
applyGrep_(t, grep, suite, st) ==
    LET visited ==
            IF ~t.hasStates[suite]
            THEN forEachChild(t, grep, suite, st.children[suite], 1, st)
            ELSE IF leafRemoved(grep, fullName(t, suite))
            THEN IF t.parent[suite] = NoParent
                 THEN [st EXCEPT !.threw = TRUE]
                 ELSE [st EXCEPT !.children =
                          removeChild(st.children, t.parent[suite], suite)]
            ELSE st
    IN  IF visited.threw THEN visited
        ELSE IF pruneEmpty(t.hasStates[suite], Len(visited.children[suite]),
                           t.parent[suite])
        THEN [visited EXCEPT !.children =
                 removeChild(visited.children, t.parent[suite], suite)]
        ELSE visited

\* the children of every node of a tree with the given parents
childrenOf(par) ==
    [p \in DOMAIN par |->
        LET S == {c \in DOMAIN par : par[c] = p}
            F[i \in 0..Len(par)] ==
                IF i = 0 THEN <<>>
                ELSE IF i \in S THEN Append(F[i - 1], i) ELSE F[i - 1]
        IN  F[Len(par)]]

\* -------------------------------------------------------------- orchestrator
\* new GeminiError(err)
GeminiError(err) == [type |-> "GeminiError", cause |-> err]
NoError == [type |-> None, cause |-> None]
DiscoveryError == [type |-> "DiscoveryError", cause |-> None]
RunnerError == [type |-> "RunnerError", cause |-> None]
\* what require throws for a module that is not there
ModuleNotFound(module) == [type |-> "MODULE_NOT_FOUND", cause |-> module]
\* what a reporter module throws when its own code fails while it loads
LoadError == [type |-> "Error", cause |-> "reporter failed to load"]
\* new TypeError('Reporter must be a string, an object or a function')
ReporterTypeError ==
    [type |-> "TypeError",
     cause |-> "Reporter must be a string, an object or a function"]
\* an INIT handler fails
InitError == [type |-> "InitError", cause |-> None]

Pending == [state |-> "pending", value |-> <<None, 0>>, error |-> NoError]
Resolved(v) == [state |-> "resolved", value |-> v, error |-> NoError]
Rejected(e) == [state |-> "rejected", value |-> <<None, 0>>, error |-> e]

\* suite collections: the one the caller built, or the one op o's discovery made
NoCollection == <<None, 0>>
GivenCollection == <<"given", 0>>
ReadCollection(o) == <<"read", o>>
Stats(s) == <<s, 0>>

\* the first argument of test / update: a path list or a built SuiteCollection
Sources == {"paths", "collection"}

\* the root suite the test reader returns in a run: suites a (with states a.b,
\* a.c) and d (with state d.b)
ExampleTree ==
    [parent |-> <<0, 1, 1, 2, 2, 3>>,
     hasStates |-> <<FALSE, FALSE, FALSE, TRUE, TRUE, TRUE>>,
     children |-> childrenOf(<<0, 1, 1, 2, 2, 3>>)]
\* ------------------------------------------------------------ browser ids
\* a string is the sequence of its characters
Chars == {"c", "i", ",", " "}
Strings(n) == UNION {[1..k -> Chars] : k \in 0..n}
\* an environment variable: not set, or set to a text
Unset == [set |-> FALSE, text |-> <<>>]
EnvVar(text) == [set |-> TRUE, text |-> text]
NoEnv == [browsers |-> Unset, skipBrowsers |-> Unset]
\* the environments of a run: one of the two variables set, or both set to
\* the same (shorter) text
Envs ==
    {[browsers |-> EnvVar(t), skipBrowsers |-> Unset] : t \in Strings(MaxEnvLen)}
    \cup {[browsers |-> Unset, skipBrowsers |-> EnvVar(t)] : t \in Strings(MaxEnvLen)}
    \cup {[browsers |-> EnvVar(t), skipBrowsers |-> EnvVar(t)] :
             t \in Strings(MaxEnvLen - 1)}

\* a value that may be an array of ids: undefined and the empty string are not
NoBrowsers == [array |-> FALSE, ids |-> <<>>]
BrowserList(ids) == [array |-> TRUE, ids |-> ids]

\* this.browserIds = this.config.getBrowserIds(): the configured ids c and f
browserIds == << <<"c">>, <<"f">> >>

\* str.replace(/\s/g, '')
stripSpaces(str) == SelectSeq(str, LAMBDA ch : ch # " ")
\* str.split(',')
RECURSIVE split(_)
split(str) ==
    IF \A k \in DOMAIN str : str[k] # "," THEN <<str>>
    ELSE LET k == CHOOSE j \in DOMAIN str :
                      str[j] = "," /\ \A h \in 1..(j - 1) : str[h] # ","
         IN  <<SubSeq(str, 1, k - 1)>> \o split(SubSeq(str, k + 1, Len(str)))

\* parseBrowsers: browsers && browsers.replace(/\s/g, '').split(',')
parseBrowsers(v) ==
    IF ~v.set \/ v.text = <<>> THEN NoBrowsers
    ELSE BrowserList(split(stripSpaces(v.text)))

elements(list) == {list[k] : k \in DOMAIN list}
\* _.difference(browsers, browsersFromConfig), empty for what is not an array
difference_all(browsers, values) == browsers.ids
difference(browsers, values) ==
    SelectSeq(browsers.ids, LAMBDA id : id \notin elements(values))
\* _.uniq: the first occurrence of each value
RECURSIVE uniq(_)
uniq(list) ==
    IF list = <<>> THEN <<>>
    ELSE LET front == SubSeq(list, 1, Len(list) - 1)
             last == list[Len(list)]
         IN  IF last \in elements(front) THEN uniq(front)
             ELSE Append(uniq(front), last)
\* getValidBrowsers: _.intersection(browsers, this.browserIds)
getValidBrowsers_all(browsers) == uniq(browsers.ids)
getValidBrowsers(browsers) ==
    uniq(SelectSeq(browsers.ids, LAMBDA id : id \in elements(browserIds)))
\* checkUnknownBrowsers: the warnings after the call, a warning naming the
\* unknown ids when there are any
checkUnknownBrowsers(warnings, browsers) ==
    LET unknownBrowsers == difference(browsers, browserIds)
    IN  IF unknownBrowsers # <<>> THEN Append(warnings, unknownBrowsers)
        ELSE warnings
\* options.browsers = options.browsers || envBrowsers
requestedBrowsers(option, envBrowsers) ==
    IF option.array THEN option ELSE envBrowsers
\* the ids the test reader looks for tests of: those it is handed that are
\* configured, every configured one when it is handed none
readerBrowsers(handed) ==
    IF handed.array
    THEN SelectSeq(handed.ids, LAMBDA id : id \in elements(browserIds))
    ELSE browserIds

\* options.browsers of a call: left out, or c and the unknown i
OptionBrowsers == {NoBrowsers, BrowserList(<< <<"c">>, <<"i">> >>)}

\* options.grep: left out, or a pattern matching a.c only
NoGrep == [given |-> FALSE, matches |-> {}]
GrepC == [given |-> TRUE, matches |-> {<<2, 5>>}]

\* the options argument: left out, or an object with reporters and grep
NoOptions ==
    [given |-> FALSE, reporters |-> <<>>, grep |-> NoGrep,
     browsers |-> NoBrowsers]
PlainOptions ==
    [given |-> TRUE, reporters |-> <<>>, grep |-> NoGrep,
     browsers |-> NoBrowsers]
\* the option arguments of the calls made next to halt calls
FewOptionArgs == {NoOptions, PlainOptions}
\* the option arguments of the calls whose run pipeline is followed
RunOptionArgs ==
    {NoOptions} \cup
    {[given |-> TRUE, reporters |-> r, grep |-> g, browsers |-> NoBrowsers] :
        r \in ReporterLists, g \in {NoGrep, GrepC}}
\* the option arguments of the calls that name reporters
ReporterOptionArgs ==
    {NoOptions} \cup
    {[given |-> TRUE, reporters |-> r, grep |-> NoGrep,
      browsers |-> NoBrowsers] : r \in {<<>>} \cup NamedReporterLists}
\* the option arguments of the calls that ask for browsers
BrowserOptionArgs ==
    {NoOptions} \cup
    {[given |-> TRUE, reporters |-> <<>>, grep |-> NoGrep, browsers |-> b] :
        b \in OptionBrowsers}

\* a runner: its state, whether cancel was called, the statistics it emitted
\* with END
NoRunnerYet == [state |-> "none", cancelled |-> FALSE, stats |-> Stats(None)]

\* suiteCollection.skipBrowsers(ids): not called yet
NotSkipped == [applied |-> FALSE, ids |-> <<>>]

IdleOp ==
    [pc |-> "idle", kind |-> None, source |-> None, options |-> NoOptions,
     awaits |-> None, paths |-> None, readerCalls |-> 0, afterTestsRead |-> 0,
     collection |-> NoCollection, suites |-> <<>>, runArg |-> NoCollection,
     attached |-> {}, endListener |-> FALSE, testsStatistic |-> Stats(None),
     browsers |-> NoBrowsers, warnings |-> <<>>, skipped |-> NotSkipped,
     ranBody |-> FALSE,
     body |-> Pending, outcome |-> Pending]

\* what a halt call did: its arguments, the operations in flight when it was
\* made, whether it threw, cancelled the runner, recorded the error, scheduled
\* the forced shutdown
NoHalt ==
    [called |-> FALSE, err |-> None, zeroTimeout |-> FALSE, inFlight |-> {},
     threw |-> FALSE, cancelled |-> FALSE, recorded |-> FALSE,
     scheduled |-> FALSE]

\* the data the signal handler passes with INTERRUPT
SignalData == {"SIGINT", "SIGTERM"}

\* what an interrupt signal did: its data, the runs whose body had begun and
\* was not over, the data of each public INTERRUPT event emitted, the runners
\* cancel was invoked on and those among them that were already over
NoSignal ==
    [delivered |-> FALSE, data |-> None, running |-> {}, forwarded |-> <<>>,
     cancelled |-> {}, stale |-> {}]

Init ==
    /\ initFn = "emit"
    /\ initCount = 0
    /\ initState = "none"
    /\ ops = [o \in Ops |-> IdleOp]
    /\ runnerRef = NoRunner
    /\ runners = [o \in Ops |-> NoRunnerYet]
    /\ criticalError = NoError
    /\ timers = 0
    /\ halts = 0
    /\ lastHalt = NoHalt
    /\ listeners = <<>>
    /\ signals = 0
    /\ lastSignal = NoSignal
    /\ env = NoEnv
    /\ suiteTree = ExampleTree
    /\ grepPattern = {}
    /\ grepPass = 0
    /\ filtered = [children |-> ExampleTree.children, threw |-> FALSE]
    /\ firstPass = filtered

\* this._init = () => Promise.resolve(): what this._init is after a call
initAfterCall_kept(fn) == fn
initAfterCall(fn) == "noop"

\* what a call of this._init returns: the emitAndWait(INIT) promise from the
\* method itself, an already resolved promise from its replacement
initPromise(fn) == IF fn = "emit" THEN "INIT" ELSE "resolved"

\* the promise _exec chains fn on has resolved
initAwaited(o) ==
    \/ ops[o].awaits = "resolved"
    \/ ops[o].awaits = "INIT" /\ initState = "done"

\* the .finally of _exec: a recorded critical error is thrown in place of the
\* outcome of fn
execOutcome_onSuccessOnly(crit, body) ==
    IF crit # NoError /\ body.state = "resolved" THEN Rejected(crit) ELSE body
execOutcome(crit, body) ==
    IF crit # NoError THEN Rejected(crit) ELSE body

\* _run's argument shuffling: without options, the one argument is the options
runPaths(paths, options) == IF ~options.given THEN "undefined" ELSE paths
runOptions(paths, options) ==
    IF ~options.given
    THEN PlainOptions
    ELSE options

\* source instanceof SuiteCollection
isSuiteCollection_never(source) == FALSE
isSuiteCollection(source) == source = "collection"

\* halt(err, timeout = 60000)
haltTimeout(arg) == IF arg.given THEN arg.ms ELSE DefaultTimeout
\* if (timeout === 0) return; setTimeout(...)
schedulesShutdown(timeout) == timeout # 0

\* the options an operation works with: those of the call for readTests, the
\* shuffled ones for test and update
optionsOf(o) ==
    IF ops[o].kind = "run" THEN runOptions(ops[o].source, ops[o].options)
    ELSE ops[o].options

\* the public call: _exec(fn) up to the first await
_exec(o, kind, paths, options) ==
    /\ ops[o].pc = "idle"
    /\ \A q \in Ops : q < o => ops[q].pc # "idle"
    /\ initFn' = initAfterCall(initFn)
    /\ initCount' = IF initFn = "emit" THEN initCount + 1 ELSE initCount
    /\ initState' = IF initFn = "emit" THEN "pending" ELSE initState
    /\ ops' = [ops EXCEPT ![o] =
                  [@ EXCEPT !.pc = "awaitInit", !.kind = kind, !.source = paths,
                            !.options = options,
                            !.awaits = initPromise(initFn)]]
    /\ UNCHANGED <<runnerRef, runners, criticalError, timers, halts,
                   lastHalt>>
    /\ UNCHANGED sigVars
    /\ UNCHANGED grepVars
    /\ UNCHANGED env

\* test(paths, options) and update(paths, options) differ in the state
\* processor they hand to _run, which the runner alone looks at
test(o, OptionArgs) ==
    \E paths \in Sources, options \in OptionArgs :
        _exec(o, "run", paths, options)

update(o, OptionArgs) ==
    \E paths \in Sources, options \in OptionArgs :
        _exec(o, "run", paths, options)

\* readTests(paths, options = {}): an options object is always there, and its
\* reporters are not looked at
readTests(o, OptionArgs) ==
    \E options \in {a \in OptionArgs : a.given /\ a.reporters = <<>>} :
        _exec(o, "readTests", "paths", options)

\* every INIT handler has completed: the emitAndWait(INIT) promise resolves
initResolved ==
    /\ initState = "pending"
    /\ initState' = "done"
    /\ UNCHANGED <<initFn, initCount, ops, runnerRef, runners, criticalError,
                   timers, halts, lastHalt>>
    /\ UNCHANGED sigVars
    /\ UNCHANGED grepVars
    /\ UNCHANGED env

\* an INIT handler fails: the emitAndWait(INIT) promise rejects
initFailed ==
    /\ initState = "pending"
    /\ initState' = "failed"
    /\ UNCHANGED <<initFn, initCount, ops, runnerRef, runners, criticalError,
                   timers, halts, lastHalt>>
    /\ UNCHANGED sigVars
    /\ UNCHANGED grepVars
    /\ UNCHANGED env

\* the promise _exec chains fn on has rejected: .then(() => fn()) is passed
\* over and the rejection reaches the .finally
initRejected(o) ==
    /\ ops[o].pc = "awaitInit"
    /\ ops[o].awaits = "INIT"
    /\ initState = "failed"
    /\ ops' = [ops EXCEPT ![o] =
                  [@ EXCEPT !.pc = "settled", !.body = Rejected(InitError)]]
    /\ UNCHANGED <<initFn, initCount, initState, runnerRef, runners,
                   criticalError, timers, halts, lastHalt>>
    /\ UNCHANGED sigVars
    /\ UNCHANGED grepVars
    /\ UNCHANGED env

\* .then(() => fn()) of readTests: _readTests calls the test reader
_readTests(o) ==
    /\ ops[o].pc = "awaitInit"
    /\ ops[o].kind = "readTests"
    /\ initAwaited(o)
    /\ ops' = [ops EXCEPT ![o] =
                  [@ EXCEPT !.pc = "reading", !.paths = ops[o].source,
                            !.ranBody = TRUE,
                            !.browsers = ops[o].options.browsers,
                            !.readerCalls = @ + 1]]
    /\ UNCHANGED <<initFn, initCount, initState, runnerRef, runners,
                   criticalError, timers, halts, lastHalt>>
    /\ UNCHANGED sigVars
    /\ UNCHANGED grepVars
    /\ UNCHANGED env

\* .then(() => fn()) of test / update: _run up to getTests(paths, options); the
\* INTERRUPT handler it puts on the signal handler stays there
_run(o) ==
    /\ ops[o].pc = "awaitInit"
    /\ ops[o].kind = "run"
    /\ initAwaited(o)
    /\ LET paths == runPaths(ops[o].source, ops[o].options)
           reuse == isSuiteCollection(paths)
           envBrowsers == parseBrowsers(env.browsers)
           browsers == requestedBrowsers(optionsOf(o).browsers, envBrowsers)
       IN  ops' = [ops EXCEPT ![o] =
                      [@ EXCEPT !.paths = paths,
                                !.ranBody = TRUE,
                                !.browsers = browsers,
                                !.warnings =
                                    IF browsers.array
                                    THEN checkUnknownBrowsers(@, browsers)
                                    ELSE @,
                                !.pc = IF reuse THEN "haveTests" ELSE "reading",
                                !.collection =
                                    IF reuse THEN GivenCollection ELSE @,
                                !.readerCalls = IF reuse THEN @ ELSE @ + 1]]
    /\ runners' = [runners EXCEPT ![o] =
                      [state |-> "created", cancelled |-> FALSE,
                       stats |-> Stats(None)]]
    /\ runnerRef' = o
    /\ listeners' = Append(listeners, o)
    /\ UNCHANGED <<initFn, initCount, initState, criticalError, timers,
                   halts, lastHalt, signals, lastSignal>>
    /\ UNCHANGED grepVars
    /\ UNCHANGED env

\* the test reader resolves with the root suite: grep, new SuiteCollection,
\* AFTER_TESTS_READ
readerResolved(o) ==
    /\ ops[o].pc = "reading"
    /\ LET grep == optionsOf(o).grep
           start == [children |-> ExampleTree.children, threw |-> FALSE]
           root == IF grep.given
                   THEN applyGrep_(ExampleTree, grep.matches, Root, start)
                   ELSE start
       IN  ops' = [ops EXCEPT ![o] =
                      [@ EXCEPT !.suites = root.children[Root],
                                !.collection = ReadCollection(o),
                                !.afterTestsRead = @ + 1,
                                !.pc = IF ops[o].kind = "readTests"
                                       THEN "settled" ELSE "haveTests",
                                !.body = IF ops[o].kind = "readTests"
                                         THEN Resolved(ReadCollection(o))
                                         ELSE @]]
    /\ UNCHANGED <<initFn, initCount, initState, runnerRef, runners,
                   criticalError, timers, halts, lastHalt>>
    /\ UNCHANGED sigVars
    /\ UNCHANGED grepVars
    /\ UNCHANGED env

\* the test reader fails with a discovery error
readerFailed(o) ==
    /\ ops[o].pc = "reading"
    /\ ops' = [ops EXCEPT ![o] =
                  [@ EXCEPT !.pc = "settled", !.body = Rejected(DiscoveryError)]]
    /\ UNCHANGED <<initFn, initCount, initState, runnerRef, runners,
                   criticalError, timers, halts, lastHalt>>
    /\ UNCHANGED sigVars
    /\ UNCHANGED grepVars
    /\ UNCHANGED env

\* applyReporter(runner, reporter) has returned: the reporters attached by then
attachedOnReturn(reporters) ==
    {i \in 1..Len(reporters) : reporters[i] \in {"sync", "flat"}}

\* the reporter modules under ./reporters: flat loads; broken is there and
\* requires a module that is not installed; faulty is there and throws while
\* it loads; there is no module nosuch. What require throws, if it does
requireReporter(name) ==
    CASE name = "flat" -> NoError
      [] name = "broken" -> ModuleNotFound("dependency")
      [] name = "faulty" -> LoadError
      [] OTHER -> ModuleNotFound("./reporters/" \o name)

\* catch (e): what applyReporter throws for what require threw
requireFailure(e, name) ==
    IF e.type = "MODULE_NOT_FOUND"
    THEN GeminiError("No such reporter: " \o name)
    ELSE e

\* typeof reporter === 'function'
isFunction_any(reporter) == TRUE
isFunction(reporter) == reporter \in Callables

\* applyReporter(runner, reporter): what it throws, if it does
applyReporter(reporter) ==
    IF reporter \in ReporterNames
    THEN LET e == requireReporter(reporter)
         IN  IF e # NoError THEN requireFailure(e, reporter) ELSE NoError
    ELSE IF ~isFunction(reporter) THEN ReporterTypeError
    ELSE NoError

\* options.reporters.forEach: the first reporter applyReporter throws for (0
\* when there is none), and the reporters applyReporter returned for
firstThrow(reporters) ==
    LET throwing == {i \in 1..Len(reporters) :
                        applyReporter(reporters[i]) # NoError}
    IN  IF throwing = {} THEN 0
        ELSE CHOOSE i \in throwing : \A j \in throwing : i <= j
applied(reporters) ==
    IF firstThrow(reporters) = 0 THEN reporters
    ELSE SubSeq(reporters, 1, firstThrow(reporters) - 1)

\* .then((suiteCollection) => ...) of _run: skipBrowsers, the reporters, the
\* END listener, runner.run(suiteCollection)
runTests(o) ==
    /\ ops[o].pc = "haveTests"
    /\ firstThrow(optionsOf(o).reporters) = 0
    /\ ops' = [ops EXCEPT ![o] =
                  [@ EXCEPT !.pc = "running",
                            !.warnings =
                                checkUnknownBrowsers(@,
                                    parseBrowsers(env.skipBrowsers)),
                            !.skipped =
                                [applied |-> TRUE,
                                 ids |-> getValidBrowsers(
                                             parseBrowsers(env.skipBrowsers))],
                            !.attached = attachedOnReturn(optionsOf(o).reporters),
                            !.endListener = TRUE,
                            !.runArg = ops[o].collection]]
    /\ runners' = [runners EXCEPT ![o].state = "running"]
    /\ UNCHANGED <<initFn, initCount, initState, runnerRef, criticalError,
                   timers, halts, lastHalt>>
    /\ UNCHANGED sigVars
    /\ UNCHANGED grepVars
    /\ UNCHANGED env

\* .then((suiteCollection) => ...) of _run when applyReporter throws: the
\* promise of _run rejects with what was thrown
reporterThrew(o) ==
    /\ ops[o].pc = "haveTests"
    /\ LET reporters == optionsOf(o).reporters
           k == firstThrow(reporters)
       IN  /\ k # 0
           /\ ops' = [ops EXCEPT ![o] =
                         [@ EXCEPT !.pc = "settled",
                                   !.warnings =
                                       checkUnknownBrowsers(@,
                                           parseBrowsers(env.skipBrowsers)),
                                   !.skipped =
                                       [applied |-> TRUE,
                                        ids |-> getValidBrowsers(
                                                    parseBrowsers(
                                                        env.skipBrowsers))],
                                   !.attached =
                                       attachedOnReturn(applied(reporters)),
                                   !.body =
                                       Rejected(applyReporter(reporters[k]))]]
    /\ UNCHANGED <<initFn, initCount, initState, runnerRef, runners,
                   criticalError, timers, halts, lastHalt>>
    /\ UNCHANGED sigVars
    /\ UNCHANGED grepVars
    /\ UNCHANGED env

\* an asynchronous reporter finishes attaching itself to the runner
reporterAttached(o, i) ==
    /\ ops[o].pc \in {"running", "settled"}
    /\ i \in 1..Len(applied(optionsOf(o).reporters))
    /\ i \notin ops[o].attached
    /\ ops' = [ops EXCEPT ![o].attached = @ \cup {i}]
    /\ UNCHANGED <<initFn, initCount, initState, runnerRef, runners,
                   criticalError, timers, halts, lastHalt>>
    /\ UNCHANGED sigVars
    /\ UNCHANGED grepVars
    /\ UNCHANGED env

\* runner.on(Events.END, (stats) => testsStatistic = stats): what
\* testsStatistic holds after an END event
onEnd_unheard(listening, current, stats) == current
onEnd(listening, current, stats) == IF listening THEN stats ELSE current

\* the runner emits END with its statistics (those of the tests it got to when
\* it was cancelled); the listener of _run stores them
runnerEnd(o) ==
    /\ runners[o].state = "running"
    /\ LET stats == Stats(IF runners[o].cancelled THEN "partial" ELSE "full")
       IN  /\ runners' = [runners EXCEPT ![o] =
                             [@ EXCEPT !.state = "ended", !.stats = stats]]
           /\ ops' = [ops EXCEPT ![o] =
                         [@ EXCEPT !.testsStatistic =
                                       onEnd(ops[o].endListener, @, stats)]]
    /\ UNCHANGED <<initFn, initCount, initState, runnerRef, criticalError,
                   timers, halts, lastHalt>>
    /\ UNCHANGED sigVars
    /\ UNCHANGED grepVars
    /\ UNCHANGED env

\* runner.run resolves: .then(() => testsStatistic)
runnerResolved(o) ==
    /\ runners[o].state = "ended"
    /\ ops[o].pc = "running"
    /\ runners' = [runners EXCEPT ![o].state = "finished"]
    /\ ops' = [ops EXCEPT ![o] =
                  [@ EXCEPT !.pc = "settled",
                            !.body = Resolved(ops[o].testsStatistic)]]
    /\ UNCHANGED <<initFn, initCount, initState, runnerRef, criticalError,
                   timers, halts, lastHalt>>
    /\ UNCHANGED sigVars
    /\ UNCHANGED grepVars
    /\ UNCHANGED env

\* runner.run rejects with an error of its own
runnerFailed(o) ==
    /\ runners[o].state = "running"
    /\ ops[o].pc = "running"
    /\ runners' = [runners EXCEPT ![o].state = "failed"]
    /\ ops' = [ops EXCEPT ![o] =
                  [@ EXCEPT !.pc = "settled", !.body = Rejected(RunnerError)]]
    /\ UNCHANGED <<initFn, initCount, initState, runnerRef, criticalError,
                   timers, halts, lastHalt>>
    /\ UNCHANGED sigVars
    /\ UNCHANGED grepVars
    /\ UNCHANGED env

\* the .finally of _exec: the returned promise settles, and what the call held
\* (its arguments, the locals of _run) is gone
execFinally(o) ==
    /\ ops[o].pc = "settled"
    /\ ops' = [ops EXCEPT ![o] =
                  [IdleOp EXCEPT !.pc = "done", !.kind = ops[o].kind,
                                 !.ranBody = ops[o].ranBody,
                                 !.body = ops[o].body,
                                 !.outcome = execOutcome(criticalError, ops[o].body)]]
    /\ UNCHANGED <<initFn, initCount, initState, runnerRef, runners,
                   criticalError, timers, halts, lastHalt>>
    /\ UNCHANGED sigVars
    /\ UNCHANGED grepVars
    /\ UNCHANGED env

\* the operations whose promise is not settled yet
InFlight == {o \in Ops : ops[o].pc \notin {"idle", "done"}}

\* halt(err, timeout): this._runner.cancel() throws a TypeError while
\* this._runner is undefined, and nothing after it runs
halt(err, arg) ==
    /\ halts < MaxHalts
    /\ halts' = halts + 1
    /\ LET timeout == haltTimeout(arg)
           hasRunner == runnerRef # NoRunner
           schedules == hasRunner /\ schedulesShutdown(timeout)
       IN  /\ runners' = IF hasRunner
                         THEN [runners EXCEPT ![runnerRef].cancelled = TRUE]
                         ELSE runners
           /\ criticalError' = IF hasRunner THEN GeminiError(err)
                               ELSE criticalError
           /\ timers' = IF schedules THEN timers + 1 ELSE timers
           /\ lastHalt' = [called |-> TRUE, err |-> err,
                           zeroTimeout |-> (timeout = 0), inFlight |-> InFlight,
                           threw |-> ~hasRunner, cancelled |-> hasRunner,
                           recorded |-> hasRunner, scheduled |-> schedules]
    /\ UNCHANGED <<initFn, initCount, initState, ops, runnerRef>>
    /\ UNCHANGED sigVars
    /\ UNCHANGED grepVars
    /\ UNCHANGED env

\* this.emit(Events.INTERRUPT, data): the data the public event carries
forwardData_dropped(data) == None
forwardData(data) == data

\* the runs whose body has begun and is not over
RunsInBody ==
    {o \in Ops : ops[o].kind = "run"
                 /\ ops[o].pc \in {"reading", "haveTests", "running"}}

\* the signal handler emits INTERRUPT: every handler put there by a _run call
\* emits the public INTERRUPT and cancels the runner of its run
interrupt(data) ==
    /\ signals < MaxSignals
    /\ signals' = signals + 1
    /\ LET targets == {listeners[i] : i \in DOMAIN listeners}
       IN  /\ runners' = [o \in Ops |->
                             IF o \in targets
                             THEN [runners[o] EXCEPT !.cancelled = TRUE]
                             ELSE runners[o]]
           /\ lastSignal' =
                  [delivered |-> TRUE, data |-> data, running |-> RunsInBody,
                   forwarded |-> [i \in DOMAIN listeners |-> forwardData(data)],
                   cancelled |-> targets,
                   stale |-> {o \in targets : ops[o].pc = "done"}]
    /\ UNCHANGED <<initFn, initCount, initState, ops, runnerRef,
                   criticalError, timers, halts, lastHalt, listeners>>
    /\ UNCHANGED grepVars
    /\ UNCHANGED env

Next ==
    \/ \E o \in Ops : test(o, FewOptionArgs)
    \/ \E o \in Ops : update(o, FewOptionArgs)
    \/ \E o \in Ops : readTests(o, FewOptionArgs)
    \/ initResolved
    \/ \E o \in Ops : _readTests(o)
    \/ \E o \in Ops : _run(o)
    \/ \E o \in Ops : readerResolved(o)
    \/ \E o \in Ops : readerFailed(o)
    \/ \E o \in Ops : runTests(o)
    \/ \E o \in Ops : runnerEnd(o)
    \/ \E o \in Ops : runnerResolved(o)
    \/ \E o \in Ops : runnerFailed(o)
    \/ \E o \in Ops : execFinally(o)
    \/ \E err \in Errs, arg \in TimeoutArgs : halt(err, arg)

\* calls of the public operations and halt calls, in any order
Spec == Init /\ [][Next]_vars

\* every operation called before o has completed
serial(o) == \A q \in Ops : q < o => ops[q].pc = "done"

\* one operation at a time (a call is made when the one before has
\* completed), halt calls at any moment
SerialNext ==
    \/ \E o \in Ops : serial(o) /\ test(o, FewOptionArgs)
    \/ \E o \in Ops : serial(o) /\ update(o, FewOptionArgs)
    \/ \E o \in Ops : serial(o) /\ readTests(o, FewOptionArgs)
    \/ initResolved
    \/ \E o \in Ops : _readTests(o)
    \/ \E o \in Ops : _run(o)
    \/ \E o \in Ops : readerResolved(o)
    \/ \E o \in Ops : readerFailed(o)
    \/ \E o \in Ops : runTests(o)
    \/ \E o \in Ops : runnerEnd(o)
    \/ \E o \in Ops : runnerResolved(o)
    \/ \E o \in Ops : runnerFailed(o)
    \/ \E o \in Ops : execFinally(o)
    \/ \E err \in Errs, arg \in TimeoutArgs : halt(err, arg)

SpecSerial == Init /\ [][SerialNext]_vars

\* one operation at a time, interrupt signals at any moment, no halt call
InterruptNext ==
    \/ \E o \in Ops : serial(o) /\ test(o, FewOptionArgs)
    \/ \E o \in Ops : serial(o) /\ update(o, FewOptionArgs)
    \/ \E o \in Ops : serial(o) /\ readTests(o, FewOptionArgs)
    \/ initResolved
    \/ \E o \in Ops : _readTests(o)
    \/ \E o \in Ops : _run(o)
    \/ \E o \in Ops : readerResolved(o)
    \/ \E o \in Ops : readerFailed(o)
    \/ \E o \in Ops : runTests(o)
    \/ \E o \in Ops : runnerEnd(o)
    \/ \E o \in Ops : runnerResolved(o)
    \/ \E o \in Ops : runnerFailed(o)
    \/ \E o \in Ops : execFinally(o)
    \/ \E data \in SignalData : interrupt(data)

SpecInterrupt == Init /\ [][InterruptNext]_vars

\* one operation at a time, INIT handlers that may fail, no halt call
InitFailNext ==
    \/ \E o \in Ops : serial(o) /\ test(o, FewOptionArgs)
    \/ \E o \in Ops : serial(o) /\ update(o, FewOptionArgs)
    \/ \E o \in Ops : serial(o) /\ readTests(o, FewOptionArgs)
    \/ initResolved
    \/ initFailed
    \/ \E o \in Ops : initRejected(o)
    \/ \E o \in Ops : _readTests(o)
    \/ \E o \in Ops : _run(o)
    \/ \E o \in Ops : readerResolved(o)
    \/ \E o \in Ops : readerFailed(o)
    \/ \E o \in Ops : runTests(o)
    \/ \E o \in Ops : runnerEnd(o)
    \/ \E o \in Ops : runnerResolved(o)
    \/ \E o \in Ops : runnerFailed(o)
    \/ \E o \in Ops : execFinally(o)

SpecInitFail == Init /\ [][InitFailNext]_vars

\* the construction in any environment
BrowsersInit ==
    /\ initFn = "emit"
    /\ initCount = 0
    /\ initState = "none"
    /\ ops = [o \in Ops |-> IdleOp]
    /\ runnerRef = NoRunner
    /\ runners = [o \in Ops |-> NoRunnerYet]
    /\ criticalError = NoError
    /\ timers = 0
    /\ halts = 0
    /\ lastHalt = NoHalt
    /\ listeners = <<>>
    /\ signals = 0
    /\ lastSignal = NoSignal
    /\ env \in Envs
    /\ suiteTree = ExampleTree
    /\ grepPattern = {}
    /\ grepPass = 0
    /\ filtered = [children |-> ExampleTree.children, threw |-> FALSE]
    /\ firstPass = filtered

\* one operation at a time with browsers asked for by the caller or by the
\* environment, no halt call
BrowsersNext ==
    \/ \E o \in Ops : serial(o) /\ test(o, BrowserOptionArgs)
    \/ \E o \in Ops : serial(o) /\ update(o, BrowserOptionArgs)
    \/ \E o \in Ops : serial(o) /\ readTests(o, BrowserOptionArgs)
    \/ initResolved
    \/ \E o \in Ops : _readTests(o)
    \/ \E o \in Ops : _run(o)
    \/ \E o \in Ops : readerResolved(o)
    \/ \E o \in Ops : readerFailed(o)
    \/ \E o \in Ops : runTests(o)
    \/ \E o \in Ops : runnerEnd(o)
    \/ \E o \in Ops : runnerResolved(o)
    \/ \E o \in Ops : runnerFailed(o)
    \/ \E o \in Ops : execFinally(o)

SpecBrowsers == BrowsersInit /\ [][BrowsersNext]_vars

\* calls of the public operations, in any order, no halt call
CallsNext ==
    \/ \E o \in Ops : test(o, FewOptionArgs)
    \/ \E o \in Ops : update(o, FewOptionArgs)
    \/ \E o \in Ops : readTests(o, FewOptionArgs)
    \/ initResolved
    \/ \E o \in Ops : _readTests(o)
    \/ \E o \in Ops : _run(o)
    \/ \E o \in Ops : readerResolved(o)
    \/ \E o \in Ops : readerFailed(o)
    \/ \E o \in Ops : runTests(o)
    \/ \E o \in Ops : runnerEnd(o)
    \/ \E o \in Ops : runnerResolved(o)
    \/ \E o \in Ops : runnerFailed(o)
    \/ \E o \in Ops : execFinally(o)

SpecCalls == Init /\ [][CallsNext]_vars

\* the run pipeline with every option argument, no halt call
RunNext ==
    \/ \E o \in Ops : test(o, RunOptionArgs)
    \/ \E o \in Ops : update(o, RunOptionArgs)
    \/ \E o \in Ops : readTests(o, RunOptionArgs)
    \/ initResolved
    \/ \E o \in Ops : _readTests(o)
    \/ \E o \in Ops : _run(o)
    \/ \E o \in Ops : readerResolved(o)
    \/ \E o \in Ops : readerFailed(o)
    \/ \E o \in Ops : runTests(o)
    \/ \E o \in Ops : \E i \in 1..Len(optionsOf(o).reporters) :
           reporterAttached(o, i)
    \/ \E o \in Ops : runnerEnd(o)
    \/ \E o \in Ops : runnerResolved(o)
    \/ \E o \in Ops : runnerFailed(o)
    \/ \E o \in Ops : execFinally(o)

SpecRun == Init /\ [][RunNext]_vars

\* one operation at a time with reporters given by name, halt calls with a
\* zero timeout at any moment
ReportersNext ==
    \/ \E o \in Ops : serial(o) /\ test(o, ReporterOptionArgs)
    \/ \E o \in Ops : serial(o) /\ update(o, ReporterOptionArgs)
    \/ \E o \in Ops : serial(o) /\ readTests(o, ReporterOptionArgs)
    \/ initResolved
    \/ \E o \in Ops : _readTests(o)
    \/ \E o \in Ops : _run(o)
    \/ \E o \in Ops : readerResolved(o)
    \/ \E o \in Ops : readerFailed(o)
    \/ \E o \in Ops : runTests(o)
    \/ \E o \in Ops : reporterThrew(o)
    \/ \E o \in Ops : \E i \in 1..Len(optionsOf(o).reporters) :
           reporterAttached(o, i)
    \/ \E o \in Ops : runnerEnd(o)
    \/ \E o \in Ops : runnerResolved(o)
    \/ \E o \in Ops : runnerFailed(o)
    \/ \E o \in Ops : execFinally(o)
    \/ halt("e1", NoForcedShutdown)

SpecReporters == Init /\ [][ReportersNext]_vars

\* ------------------------------------------------- grep filter on its own
\* the trees the test reader hands over: the root is a suite without states;
\* every other suite either has states (and no children) or is a container
\* of any number of children
SuiteTrees ==
    UNION {
        LET Parents == {par \in [1..n -> 0..(n - 1)] :
                            /\ par[Root] = NoParent
                            /\ \A i \in 2..n : par[i] \in 1..(i - 1)}
        IN  UNION {
              { [parent |-> par, hasStates |-> hs, children |-> childrenOf(par)] :
                  hs \in {h \in [1..n -> BOOLEAN] :
                            /\ ~h[Root]
                            /\ \A i \in 1..n : h[i] => childrenOf(par)[i] = <<>>} }
              : par \in Parents }
        : n \in 1..MaxNodes }

\* the orchestrator as constructed, with no call made
OrchIdle ==
    /\ initFn = "emit"
    /\ initCount = 0
    /\ initState = "none"
    /\ ops = [o \in Ops |-> IdleOp]
    /\ runnerRef = NoRunner
    /\ runners = [o \in Ops |-> NoRunnerYet]
    /\ criticalError = NoError
    /\ timers = 0
    /\ halts = 0
    /\ lastHalt = NoHalt
    /\ listeners = <<>>
    /\ signals = 0
    /\ lastSignal = NoSignal
    /\ env = NoEnv

GrepInit ==
    /\ OrchIdle
    /\ suiteTree \in SuiteTrees
    /\ grepPattern \in SUBSET {fullName(suiteTree, n) : n \in Nodes(suiteTree) \ {Root}}
    /\ grepPass = 0
    /\ filtered = [children |-> suiteTree.children, threw |-> FALSE]
    /\ firstPass = filtered

\* if (options.grep) applyGrep_(options.grep, rootSuite), on a fresh root
grepOnce ==
    /\ grepPass = 0
    /\ grepPass' = 1
    /\ filtered' = applyGrep_(suiteTree, grepPattern, Root, filtered)
    /\ firstPass' = filtered'
    /\ UNCHANGED <<suiteTree, grepPattern>>
    /\ UNCHANGED orchVars

\* the same filter applied again to the already filtered root
grepAgain ==
    /\ grepPass = 1
    /\ ~filtered.threw
    /\ grepPass' = 2
    /\ filtered' = applyGrep_(suiteTree, grepPattern, Root, filtered)
    /\ UNCHANGED <<suiteTree, grepPattern, firstPass>>
    /\ UNCHANGED orchVars

GrepNext ==
    \/ grepOnce
    \/ grepAgain

SpecGrep == GrepInit /\ [][GrepNext]_vars

\* the root as a caller may build it: as above, or a suite that has states
\* itself (and, like every suite with states here, no children)
RootTrees ==
    SuiteTrees \cup
    {[parent |-> <<NoParent>>, hasStates |-> <<TRUE>>,
      children |-> childrenOf(<<NoParent>>)]}

GrepRootInit ==
    /\ OrchIdle
    /\ suiteTree \in RootTrees
    /\ grepPattern \in SUBSET {fullName(suiteTree, n) : n \in Nodes(suiteTree)}
    /\ grepPass = 0
    /\ filtered = [children |-> suiteTree.children, threw |-> FALSE]
    /\ firstPass = filtered

SpecGrepRoot == GrepRootInit /\ [][GrepNext]_vars

\* ------------------------------------------------------------------- claims
Called == {o \in Ops : ops[o].pc # "idle"}
\* the operations whose body (fn of _exec) has started
BodyStarted == {o \in Ops : ops[o].pc \notin {"idle", "awaitInit"}}

\* C1: whatever public operations are called, and however they interleave,
\* INIT is never broadcast twice, and it has been broadcast once as soon as
\* one operation was called.
InitBroadcastOnce ==
    /\ initCount <= 1
    /\ Called # {} => initCount = 1

\* two operations were called while the INIT handlers were still pending
InitBroadcastOnceWitness ==
    /\ Cardinality(Called) >= 2
    /\ initState = "pending"
    /\ initCount = 1

\* C2: no operation body starts before the INIT handlers have completed, also
\* for an operation called while the first call's initialization is pending.
BodyAfterInit ==
    \A o \in BodyStarted : initState = "done"

\* C3: a test / update run that was in flight when halt(err) was called
\* rejects with the critical error built from err.
HaltSurfaces ==
    \A o \in Ops :
        (ops[o].kind = "run" /\ ops[o].pc = "done" /\ o \in lastHalt.inFlight)
            => ops[o].outcome = Rejected(GeminiError(lastHalt.err))

\* the same for the halt calls made once a runner exists (the part of C3 the
\* code keeps)
HaltSurfacesWithRunner ==
    \A o \in Ops :
        (ops[o].kind = "run" /\ ops[o].pc = "done" /\ o \in lastHalt.inFlight
         /\ ~lastHalt.threw)
            => ops[o].outcome = Rejected(GeminiError(lastHalt.err))

\* C4: a recorded critical error is never cleared, and every operation that
\* completes while one is recorded rejects with it, whatever its body did.
CriticalErrorTerminal ==
    [][/\ criticalError # NoError => criticalError' # NoError
       /\ \A o \in Ops :
            (ops[o].pc # "done" /\ ops'[o].pc = "done"
             /\ criticalError # NoError)
                => ops'[o].outcome = Rejected(criticalError)]_vars

\* an operation called after the halt, whose own body failed, has rejected
\* with the critical error
CriticalErrorTerminalWitness ==
    \E o \in Ops :
        /\ lastHalt.recorded
        /\ o \notin lastHalt.inFlight
        /\ ops[o].pc = "done"
        /\ ops[o].body = Rejected(DiscoveryError)
        /\ ops[o].outcome = Rejected(criticalError)

\* C5: halt on an instance that has no runner does not fail and records the
\* critical error.
HaltWithoutRunner ==
    (lastHalt.called /\ runnerRef = NoRunner)
        => /\ ~lastHalt.threw
           /\ criticalError = GeminiError(lastHalt.err)

\* C6: halt with timeout 0 schedules no forced shutdown, halt with any other
\* timeout schedules one, and either way the runner is cancelled and the
\* critical error recorded.
HaltSchedules ==
    lastHalt.called
        => /\ lastHalt.zeroTimeout => ~lastHalt.scheduled
           /\ ~lastHalt.zeroTimeout => lastHalt.scheduled
           /\ lastHalt.cancelled
           /\ lastHalt.recorded

\* the same for the halt calls made once a runner exists (the part of C6 the
\* code keeps)
HaltSchedulesWithRunner ==
    (lastHalt.called /\ ~lastHalt.threw)
        => /\ lastHalt.zeroTimeout => ~lastHalt.scheduled
           /\ ~lastHalt.zeroTimeout => lastHalt.scheduled
           /\ lastHalt.cancelled
           /\ criticalError = GeminiError(lastHalt.err)

\* a node is in the tree: every suite on its path is still a child of its parent
RECURSIVE inTree(_, _, _)
inTree(t, ch, n) ==
    \/ n = Root
    \/ /\ \E i \in 1..Len(ch[t.parent[n]]) : ch[t.parent[n]][i] = n
       /\ inTree(t, ch, t.parent[n])

\* a suite with states
Leaves(t) == {n \in Nodes(t) : t.hasStates[n]}
Matching(t, grep) == {n \in Leaves(t) : grepTest(grep, fullName(t, n))}
\* n lies on the path from the root to m
isAncestor(t, n, m) ==
    n # m /\ \E i \in 1..Len(fullName(t, m)) : fullName(t, m)[i] = n

\* C7: after the grep filter the tree holds exactly the suites with states
\* whose full name matches and the containers above at least one of them;
\* every other suite, the containers left empty included, is gone (the root
\* stays).
GrepRetainsExactly ==
    grepPass >= 1 =>
        /\ ~filtered.threw
        /\ \A n \in Nodes(suiteTree) \ {Root} :
             inTree(suiteTree, filtered.children, n) <=>
                IF suiteTree.hasStates[n]
                THEN n \in Matching(suiteTree, grepPattern)
                ELSE \E m \in Matching(suiteTree, grepPattern) :
                        isAncestor(suiteTree, n, m)
        /\ \A n \in Nodes(suiteTree) \ {Root} :
             (inTree(suiteTree, filtered.children, n) /\ ~suiteTree.hasStates[n])
                => filtered.children[n] # <<>>

\* one pass kept a matching suite and its container, and removed a
\* non-matching suite and a container left empty
GrepRetainsExactlyWitness ==
    /\ grepPass = 1
    /\ \E a, b, c, d \in Nodes(suiteTree) \ {Root} :
        /\ suiteTree.hasStates[a] /\ inTree(suiteTree, filtered.children, a)
        /\ ~suiteTree.hasStates[b] /\ isAncestor(suiteTree, b, a)
        /\ suiteTree.hasStates[c] /\ ~inTree(suiteTree, filtered.children, c)
        /\ ~suiteTree.hasStates[d] /\ isAncestor(suiteTree, d, c)
        /\ ~inTree(suiteTree, filtered.children, d)

\* C8: a second application of the filter with the same pattern changes
\* nothing: the tree is as the first application left it.
GrepIdempotent ==
    grepPass = 2 => filtered = firstPass

\* the filter ran twice on a tree from which the first pass removed suites
GrepIdempotentWitness ==
    /\ grepPass = 2
    /\ firstPass.children # suiteTree.children
    /\ firstPass.children[Root] # <<>>

\* test / update calls whose first argument is a built SuiteCollection and
\* whose body has started
CollectionRuns ==
    {o \in BodyStarted : ops[o].kind = "run" /\ ops[o].source = "collection"
                         /\ ops[o].pc # "done"}
\* the run has handed a collection to runner.run
RunStarted(o) == ops[o].runArg # NoCollection

\* C9: when the source of test / update is a built SuiteCollection, with or
\* without an options argument, the test reader is not called, AFTER_TESTS_READ
\* is not emitted and the runner is run with that collection.
CollectionSkipsDiscovery ==
    \A o \in CollectionRuns :
        /\ ops[o].readerCalls = 0
        /\ ops[o].afterTestsRead = 0
        /\ RunStarted(o) => ops[o].runArg = GivenCollection

\* C9 as amended: the same when an options argument comes with the collection;
\* without one the collection is taken for the options and the tests are read
\* from the default paths.
CollectionWithOptionsSkipsDiscovery ==
    \A o \in CollectionRuns :
        IF ops[o].options.given
        THEN /\ ops[o].readerCalls = 0
             /\ ops[o].afterTestsRead = 0
             /\ RunStarted(o) => ops[o].runArg = GivenCollection
        ELSE /\ ops[o].readerCalls = 1
             /\ RunStarted(o) => ops[o].runArg = ReadCollection(o)

\* the runner of a call given a collection and options has run that collection
\* and resolved
CollectionWithOptionsWitness ==
    \E o \in CollectionRuns :
        /\ ops[o].options.given
        /\ ops[o].pc = "settled"
        /\ ops[o].body.state = "resolved"
        /\ ops[o].runArg = GivenCollection

\* C10: when a runner has been started, every reporter of the run has
\* completed its attachment.
ReportersAttachedBeforeRun ==
    \A o \in Ops :
        (runners[o].state \notin {"none", "created"} /\ ops[o].pc # "done")
            => ops[o].attached = 1..Len(optionsOf(o).reporters)

\* C11: a test or update run that resolves resolves with the statistics its
\* runner emitted with END, the END listener being in place from the moment
\* runner.run is invoked; a run cancelled by an interrupt resolves with the
\* partial statistics its runner emitted
ResolvesWithEndStatistics ==
    \A o \in Ops :
        /\ runners[o].state \notin {"none", "created"} =>
               \/ ops[o].endListener
               \/ ops[o].pc = "done"
        /\ (ops[o].kind = "run" /\ ops[o].pc \in {"settled", "done"}
               /\ ops[o].body.state = "resolved") =>
               /\ runners[o].stats # Stats(None)
               /\ ops[o].body.value = runners[o].stats
        /\ (ops[o].kind = "run" /\ ops[o].pc = "done"
               /\ ops[o].outcome.state = "resolved") =>
               ops[o].outcome.value = runners[o].stats

ResolvesWithEndStatisticsWitness ==
    \E o \in Ops :
        /\ ops[o].kind = "run"
        /\ ops[o].pc = "done"
        /\ runners[o].cancelled
        /\ ops[o].outcome = Resolved(Stats("partial"))

\* the configured ids, and the ids run o asks for: those of the caller's
\* option, else those of the environment
Configured == elements(browserIds)
Requested(o) ==
    IF optionsOf(o).browsers.array THEN optionsOf(o).browsers
    ELSE parseBrowsers(env.browsers)

SkipsConfiguredOnly ==
    \A o \in Ops :
        LET skip == parseBrowsers(env.skipBrowsers)
            unknown == elements(skip.ids) \ Configured
        IN  /\ (ops[o].kind = "run" /\ ops[o].pc # "done"
                   /\ runners[o].state \notin {"none", "created"}) =>
                   ops[o].skipped.applied
            /\ ops[o].skipped.applied =>
                   /\ elements(ops[o].skipped.ids) =
                          elements(skip.ids) \cap Configured
                   /\ ~env.skipBrowsers.set => ops[o].skipped.ids = <<>>
                   /\ unknown # {} =>
                          /\ ops[o].warnings # <<>>
                          /\ elements(ops[o].warnings[Len(ops[o].warnings)])
                                 = unknown

SkipsConfiguredOnlyWitness ==
    \E o \in Ops :
        /\ ops[o].kind = "run"
        /\ ops[o].pc = "running"
        /\ ops[o].runArg = GivenCollection
        /\ ops[o].skipped = [applied |-> TRUE, ids |-> << <<"c">> >>]
        /\ ops[o].warnings = << << <<"i">> >> >>

\* the runs whose reporters could not all be attached, and the reporter the
\* attachment stopped at
ReporterFailed(o) ==
    /\ ops[o].kind = "run"
    /\ ops[o].pc = "settled"
    /\ ops[o].body.state = "rejected"
    /\ ops[o].body.error \notin {DiscoveryError, RunnerError, InitError}
FailedReporter(o) ==
    optionsOf(o).reporters[firstThrow(optionsOf(o).reporters)]
\* there is a reporter module of that name
InRegistry(name) == name \in {"flat", "broken", "faulty"}

\* C14: a reporter given by name makes the run fail with 'No such reporter:
\* <name>' exactly when there is no reporter of that name; any other failure
\* to load a reporter that is there (one of its own dependencies is missing,
\* say) reaches the caller as it was thrown
NoSuchReporterOnlyWhenMissing ==
    \A o \in Ops :
        (ReporterFailed(o) /\ FailedReporter(o) \in ReporterNames) =>
            LET name == FailedReporter(o)
            IN  /\ (ops[o].body.error = GeminiError("No such reporter: " \o name))
                       <=> ~InRegistry(name)
                /\ InRegistry(name) =>
                       ops[o].body.error = requireReporter(name)

\* what the code keeps of it: a name that is not in the registry gives 'No
\* such reporter', and a failure that is not a MODULE_NOT_FOUND is rethrown
NoSuchReporterWhenMissing ==
    \A o \in Ops :
        (ReporterFailed(o) /\ FailedReporter(o) \in ReporterNames) =>
            LET name == FailedReporter(o)
            IN  /\ ~InRegistry(name) =>
                       ops[o].body.error = GeminiError("No such reporter: " \o name)
                /\ (InRegistry(name)
                       /\ requireReporter(name).type # "MODULE_NOT_FOUND") =>
                       ops[o].body.error = requireReporter(name)

\* a reporter that can be attached: a callable, or the name of a reporter
\* module that loads
Attachable(reporter) == reporter \in Callables \/ reporter = "flat"
\* the failures of a run before runner.run: of the discovery, of a reporter
AttachFailures ==
    {ReporterTypeError, LoadError}
    \cup {GeminiError("No such reporter: " \o name) : name \in ReporterNames}
    \cup {ModuleNotFound("dependency")}
EarlyFailures == {DiscoveryError} \cup AttachFailures
\* run o failed in its discovery or while its reporters were attached
FailedEarly(o) ==
    /\ ops[o].kind = "run"
    /\ ops[o].pc \in {"settled", "done"}
    /\ ops[o].body.state = "rejected"
    /\ ops[o].body.error \in EarlyFailures
\* what the claim and its amendment share: a reporter that cannot be attached
\* (no module of its name: 'No such reporter'; a number: the type error) or
\* a failed discovery makes the body of the run fail with that error, the
\* test reader having been called once at most and runner.run not at all
FailsBeforeRun ==
    \A o \in Ops :
        /\ (ops[o].kind = "run" /\ ops[o].pc \in {"running", "settled"}
               /\ \E i \in DOMAIN optionsOf(o).reporters :
                      ~Attachable(optionsOf(o).reporters[i])) =>
               /\ FailedEarly(o)
               /\ (ops[o].body.error # DiscoveryError
                      /\ FailedReporter(o) = "number") =>
                      ops[o].body.error = ReporterTypeError
               /\ (ops[o].body.error # DiscoveryError
                      /\ FailedReporter(o) = "nosuch") =>
                      ops[o].body.error = GeminiError("No such reporter: nosuch")
        /\ FailedEarly(o) =>
               /\ runners[o].state = "created"
               /\ ops[o].runArg = NoCollection
               /\ ops[o].readerCalls <= 1
               /\ ops[o].pc = "done" => ops[o].outcome.state = "rejected"

\* C19 as stated: a run whose discovery fails, or one of whose reporters cannot
\* be attached, rejects with that error, without a second discovery and
\* without runner.run
RejectsWithEarlyFailure ==
    /\ FailsBeforeRun
    /\ \A o \in Ops :
           (FailedEarly(o) /\ ops[o].pc = "done") =>
               ops[o].outcome.error = ops[o].body.error

\* C19, amended: it rejects with that error, or with the critical error when
\* halt has recorded one
RejectsWithEarlyFailureOrCritical ==
    /\ FailsBeforeRun
    /\ \A o \in Ops :
           (FailedEarly(o) /\ ops[o].pc = "done") =>
               \/ ops[o].outcome.error = ops[o].body.error
               \/ /\ criticalError # NoError
                  /\ ops[o].outcome.error = criticalError

RejectsWithEarlyFailureWitness ==
    \E o, q \in Ops :
        /\ ops[o].pc = "done"
        /\ ops[o].body = Rejected(ReporterTypeError)
        /\ ops[o].outcome = Rejected(ReporterTypeError)
        /\ runners[o].state = "created"
        /\ ops[q].pc = "done"
        /\ ops[q].body = Rejected(DiscoveryError)
        /\ ops[q].outcome = Rejected(GeminiError("e1"))

\* C15: with runs made one after the other, the INTERRUPT handlers on the
\* signal handler do not pile up: there is never more than the handler of the
\* run under way, and one interrupt signal is forwarded once at most and
\* cancels the runner of no run that is over
InterruptHandlersScoped ==
    /\ Len(listeners) <= 1
    /\ \A i \in DOMAIN listeners : ops[listeners[i]].pc # "done"
    /\ lastSignal.delivered =>
           /\ Len(lastSignal.forwarded) <= 1
           /\ lastSignal.stale = {}

\* C16: an interrupt signal that comes once a run has begun its body (during
\* its discovery, the attachment of its reporters, or while its runner runs)
\* is forwarded as a public INTERRUPT event with the data of the signal, and
\* cancel is invoked on the runner of that run
InterruptForwardedAndCancels ==
    lastSignal.delivered =>
        \A o \in lastSignal.running :
            /\ \E i \in DOMAIN lastSignal.forwarded :
                   lastSignal.forwarded[i] = lastSignal.data
            /\ \A i \in DOMAIN lastSignal.forwarded :
                   lastSignal.forwarded[i] = lastSignal.data
            /\ o \in lastSignal.cancelled
            /\ runners[o].cancelled

\* the signal comes while the tests of the run are being discovered
InterruptForwardedAndCancelsWitness ==
    \E o \in Ops :
        /\ lastSignal.delivered
        /\ lastSignal.data = "SIGINT"
        /\ o \in lastSignal.running
        /\ ops[o].pc = "reading"
        /\ lastSignal.forwarded = <<"SIGINT">>
        /\ runners[o].cancelled

\* C17: the critical error is the one of the last halt call: once halt was
\* called twice, every operation that completes rejects with the error made
\* from the argument of the second call
LastHaltWins ==
    [][\A o \in Ops :
          (halts >= 2 /\ ops[o].pc = "settled" /\ ops'[o].pc = "done") =>
              ops'[o].outcome = Rejected(GeminiError(lastHalt.err))]_vars

\* what the code keeps of it: a halt call made once a runner exists replaces
\* the critical error by its own
LastHaltWinsWithRunner ==
    (lastHalt.called /\ lastHalt.recorded) =>
        criticalError = GeminiError(lastHalt.err)

\* C18: the grep filter neither removes the root nor fails on it, whatever the
\* root is: a root left without children stays, and a root that has states
\* and whose full name does not match is left as it was
GrepSparesRoot ==
    grepPass >= 1 =>
        /\ ~filtered.threw
        /\ suiteTree.hasStates[Root] => filtered.children = suiteTree.children

\* what the code keeps of it: a root without states is never removed and the
\* filter does not fail on it
GrepSparesContainerRoot ==
    (grepPass >= 1 /\ ~suiteTree.hasStates[Root]) => ~filtered.threw

\* C20: the body of an operation runs only after the initialization has
\* succeeded: when an INIT handler fails during the first operation, that
\* operation rejects without running its body, and no later operation runs
\* its body while no initialization has succeeded
NoBodyWithoutInit ==
    initState # "done" => \A o \in Ops : ~ops[o].ranBody

\* what the code keeps of it: the operation that broadcast INIT rejects with
\* the failure of the handler, its body not run
InitFailureRejectsFirst ==
    \A o \in Ops :
        (initState = "failed" /\ ops[o].pc = "done"
           /\ ops[o].body = Rejected(InitError)) =>
            /\ ~ops[o].ranBody
            /\ ops[o].outcome = Rejected(InitError)
====
